---- MODULE Spec2Model ----
(***************************************************************************)
(* ShopSage (src/shopsage_core.py): ScoutAgent.search, JudgeAgent and      *)
(* ShopSage.run_pipeline as a state machine.  One run of run_pipeline is   *)
(* followed from the call to the return (or to an escaping exception);     *)
(* every backend round trip is one step whose response the environment     *)
(* chooses.                                                                *)
(*                                                                         *)
(* Representation of Python values:                                        *)
(*  - a str whose characters the code inspects (the question, the spans,   *)
(*    model output that is stripped and parsed) is a sequence of           *)
(*    one-character strings; a JSON document inside model output is one    *)
(*    opaque chunk of that sequence;                                       *)
(*  - a str that is only carried (title, url, JSON leaves) is a TLA+       *)
(*    string;                                                              *)
(*  - the search backend's content field is [id, len]: the text id cut to  *)
(*    len characters, so that slicing is a change of len;                  *)
(*  - a decoded JSON value is [t |-> type, d |-> payload], a dict's        *)
(*    payload being a function from its keys;                              *)
(*  - a call's outcome is [exc |-> name or "", val |-> value].             *)
(***************************************************************************)
EXTENDS Integers, Sequences, FiniteSets, TLC

\* ------------------------------------------------------------------ bounds
\* most results one search response carries
MaxResults == 5
\* most extraction calls that fail in one run
MaxExtractFailures == 1

\* ------------------------------------------------------- program constants
\* max_results of each search of a vs comparison
VsMaxResults == 4
\* default max_results of ScoutAgent.search
DefaultMaxResults == 8
\* snippet = content[:500]
SnippetLimit == 500
\* sources = enriched_products[:4]
SourcesLimit == 4

\* ------------------------------------------------------------ Python basics
Min(a, b) == IF a <= b THEN a ELSE b

Ok(v) == [exc |-> "", val |-> v]

Raise(e) == [exc |-> e, val |-> <<>>]

\* seq[:n]
Take(seq, n) == SubSeq(seq, 1, Min(n, Len(seq)))

\* d.get(key, default) on a dict payload
Get(d, key, default) == IF key \in DOMAIN d THEN d[key] ELSE default

\* str.isspace for one character; also the class \s
IsSpace(c) == c \in {" ", "\t", "\n"}

\* the class . of a pattern compiled without DOTALL
IsDot(c) == c # "\n"

RECURSIVE LStrip(_)
LStrip(t) == IF t # <<>> /\ IsSpace(Head(t)) THEN LStrip(Tail(t)) ELSE t

RECURSIVE RStrip(_)
RStrip(t) ==
    IF t # <<>> /\ IsSpace(t[Len(t)]) THEN RStrip(SubSeq(t, 1, Len(t) - 1)) ELSE t

\* str.strip()
Strip(t) == RStrip(LStrip(t))

\* ---------------------------------------------------------- the vs pattern
\* r"(.+?)\s+vs\.?\s+(.+?)(?:\?|$)" under re.search(..., re.IGNORECASE)

\* length of the run of \s characters of q that starts at position p
RECURSIVE SpaceRun(_, _)
SpaceRun(q, p) ==
    IF p <= Len(q) /\ IsSpace(q[p]) THEN 1 + SpaceRun(q, p + 1) ELSE 0

AllDot(q, from, to) == \A i \in from..to : IsDot(q[i])

\* $ : at the end, or before a newline that ends the string
AtDollar(q, p) == p = Len(q) + 1 \/ (p = Len(q) /\ q[p] = "\n")

\* (?:\?|$) at position p
AtTerminator(q, p) == (p <= Len(q) /\ q[p] = "?") \/ AtDollar(q, p)

\* position right after "\s+vs\.?" when group 1 is q[s..e1].  \s+ is greedy
\* and must be followed by v, so it takes its whole run; \.? takes a dot when
\* one is there, and giving it back leaves \s+ on a dot.  0 when no match.
AfterVs(q, e1) ==
    LET w1 == SpaceRun(q, e1 + 1)
        pv == e1 + 1 + w1
    IN  IF w1 >= 1 /\ pv + 1 <= Len(q)
           /\ q[pv] \in {"v", "V"} /\ q[pv + 1] \in {"s", "S"}
        THEN IF pv + 2 <= Len(q) /\ q[pv + 2] = "." THEN pv + 3 ELSE pv + 2
        ELSE 0

\* group 2 may be q[g..e2]
Group2Ok(q, g, e2) ==
    g <= e2 /\ e2 <= Len(q) /\ AllDot(q, g, e2) /\ AtTerminator(q, e2 + 1)

\* the second \s+ starts at p2 and takes w2 characters, group 2 follows
Tail2Ok(q, p2, w2) == \E e2 \in (p2 + w2)..Len(q) : Group2Ok(q, p2 + w2, e2)

\* the match succeeds with group 1 = q[s..e1]
Group1Ok(q, s, e1) ==
    /\ s <= e1 /\ AllDot(q, s, e1)
    /\ LET p2 == AfterVs(q, e1)
       IN  p2 # 0 /\ \E w2 \in 1..SpaceRun(q, p2) : Tail2Ok(q, p2, w2)

Matches(q) == \E s \in 1..Len(q) : \E e1 \in s..Len(q) : Group1Ok(q, s, e1)

\* re.search: leftmost start; group 1 lazy, so shortest; second \s+ greedy, so
\* longest; group 2 lazy, so shortest
vs_match(q) ==
    IF ~Matches(q) THEN [matched |-> FALSE, group1 |-> <<>>, group2 |-> <<>>]
    ELSE
    LET s  == CHOOSE x \in 1..Len(q) :
                /\ \E e \in x..Len(q) : Group1Ok(q, x, e)
                /\ \A y \in 1..(x - 1) : \A e \in y..Len(q) : ~Group1Ok(q, y, e)
        e1 == CHOOSE e \in s..Len(q) :
                Group1Ok(q, s, e) /\ \A f \in s..(e - 1) : ~Group1Ok(q, s, f)
        p2 == AfterVs(q, e1)
        w2 == CHOOSE w \in 1..SpaceRun(q, p2) :
                /\ Tail2Ok(q, p2, w)
                /\ \A v \in (w + 1)..SpaceRun(q, p2) : ~Tail2Ok(q, p2, v)
        g  == p2 + w2
        e2 == CHOOSE e \in g..Len(q) :
                Group2Ok(q, g, e) /\ \A f \in g..(e - 1) : ~Group2Ok(q, g, f)
    IN  [matched |-> TRUE, group1 |-> SubSeq(q, s, e1), group2 |-> SubSeq(q, g, e2)]


\* ------------------------------------------------------ the search backend
\* "" as a content value, and as a snippet
EmptyContent == [t |-> "str", d |-> [id |-> "", len |-> 0]]

\* three result objects as the backend's JSON carries them; the second has
\* content longer than the snippet limit
Pool ==
    << [t |-> "dict", d |-> [title |-> "Sony XM5", url |-> "https://shop.example/xm5",
                             content |-> [t |-> "str", d |-> [id |-> "c1", len |-> 120]]]],
       [t |-> "dict", d |-> [title |-> "AirPods Max", url |-> "https://shop.example/apm",
                             content |-> [t |-> "str", d |-> [id |-> "c2", len |-> 620]]]],
       [t |-> "dict", d |-> [title |-> "Bose QC", url |-> "https://shop.example/qc",
                             content |-> [t |-> "str", d |-> [id |-> "c3", len |-> 500]]]] >>

PoolResult(i) == Pool[((i - 1) % Len(Pool)) + 1]

\* a JSON object with k results
ResultsBody(k) == [t |-> "dict", d |-> [results |-> [i \in 1..k |-> PoolResult(i)]]]

\* bodies that are valid JSON of another shape
OddBodies ==
    { [t |-> "list", d |-> <<>>],
      [t |-> "dict", d |-> [detail |-> "no results"]],
      [t |-> "dict", d |-> [results |-> << PoolResult(1), [t |-> "str", d |-> <<>>] >>]],
      [t |-> "dict", d |-> [results |->
          << PoolResult(1),
             [t |-> "dict", d |-> [title |-> "No content", url |-> "https://shop.example/n",
                                   content |-> [t |-> "none", d |-> <<>>]]] >>]],
      [t |-> "dict", d |-> [results |-> << [t |-> "dict", d |-> [title |-> "Only a title"]] >>]] }

\* what one POST to /search can come back with
SearchResponses ==
    { [kind |-> k, body |-> [t |-> "none", d |-> <<>>]] :
          k \in {"transport_error", "status_error", "not_json"} }
    \cup { [kind |-> "json", body |-> b] :
               b \in OddBodies \cup { ResultsBody(k) : k \in 0..MaxResults } }

SearchFailures == {"transport_error", "status_error"}

\* content[:n]
Slice(content, n) ==
    IF content.t = "str"
    THEN Ok([id |-> content.d.id, len |-> Min(content.d.len, n)])
    ELSE Raise("TypeError")

\* the dict appended for one result
Normalise(result) ==
    IF result.t # "dict" THEN Raise("AttributeError")
    ELSE LET snippet == Slice(Get(result.d, "content", EmptyContent), SnippetLimit)
         IN  IF snippet.exc # "" THEN snippet
             ELSE Ok([title   |-> Get(result.d, "title", ""),
                      url     |-> Get(result.d, "url", ""),
                      snippet |-> snippet.val])

\* the try block of ScoutAgent.search
search_try(query, max_results, resp) ==
    IF resp.kind = "transport_error" THEN Raise("ConnectError")
    ELSE IF resp.kind = "status_error" THEN Raise("HTTPStatusError")
    ELSE IF resp.kind = "not_json" THEN Raise("JSONDecodeError")
    ELSE IF resp.body.t # "dict" THEN Raise("AttributeError")
    ELSE LET raw  == Get(resp.body.d, "results", <<>>)
             norm == [i \in DOMAIN raw |-> Normalise(raw[i])]
         IN  IF \E i \in DOMAIN norm : norm[i].exc # ""
             THEN Raise(norm[CHOOSE i \in DOMAIN norm :
                                /\ norm[i].exc # ""
                                /\ \A j \in 1..(i - 1) : norm[j].exc = ""].exc)
             ELSE Ok([i \in DOMAIN norm |-> norm[i].val])

\* search without its except clause
search_propagate(query, max_results, resp) == search_try(query, max_results, resp)

\* ScoutAgent.search: except Exception: return []
search(query, max_results, resp) ==
    LET tried == search_try(query, max_results, resp)
    IN  IF tried.exc # "" THEN Ok(<<>>) ELSE tried

\* -------------------------------------------------- the generation backend
ChatFailures == {"api_error", "null_content"}

NoContent == <<>>

\* JudgeAgent._call_openai: the stripped content, "" on any exception
\* (create raising, or content None having no strip)
call_openai(json_mode, resp) ==
    IF resp.kind = "api_error" THEN Ok(<<>>)
    ELSE IF resp.kind = "null_content" THEN Ok(<<>>)
    ELSE Ok(Strip(resp.content))

\* the extraction backend answers a snippet with a padded summary of it
SummaryContent(snippet) == <<" ", "summary of", " ", snippet.id, "\n">>

ExtractResponses(snippet) ==
    { [kind |-> k, content |-> NoContent] : k \in ChatFailures }
    \cup { [kind |-> "ok", content |-> SummaryContent(snippet)] }

\* JudgeAgent.extract_product_info
extract_product_info(snippet, resp) == call_openai(FALSE, resp)

\* JSON documents the judge backend may answer with
JsonFull == "{\"winner\": \"A\", \"ranking\": [\"A\", \"B\"], \"reasons\": [\"cheaper\"]}"

JsonPartial == "{\"winner\": \"A\"}"

\* "[" repeated beyond the interpreter's recursion limit
DeepNesting == "[[[[ ... [[[["

\* json.loads: besides JSON it accepts the literal NaN, and on nesting deeper
\* than the recursion limit it raises RecursionError, not JSONDecodeError
json_loads(text) ==
    LET core == Strip(text)
        doc  == IF Len(core) = 1 THEN core[1] ELSE ""
    IN  CASE doc = JsonFull ->
               Ok([t |-> "dict", d |-> [winner |-> "A", ranking |-> <<"A", "B">>,
                                        reasons |-> <<"cheaper">>]])
          [] doc = JsonPartial -> Ok([t |-> "dict", d |-> [winner |-> "A"]])
          [] doc = "{}"   -> Ok([t |-> "dict", d |-> <<>>])
          [] doc = "[]"   -> Ok([t |-> "list", d |-> <<>>])
          [] doc = "null" -> Ok([t |-> "none", d |-> <<>>])
          [] doc = "NaN"  -> Ok([t |-> "float", d |-> <<>>])
          [] doc = DeepNesting -> Raise("RecursionError")
          [] OTHER        -> Raise("JSONDecodeError")

\* content that is not JSON
NonJsonContents ==
    { <<"I", " ", "cannot", " ", "decide">>, <<"{", "winner">>, <<>>, <<" ">>,
      <<"NaN">>, <<DeepNesting>> }

\* content that is JSON, with and without padding
JsonContents ==
    { <<" ", JsonFull, "\n">>, <<JsonPartial>>, <<"{}">>, <<"[]">>, <<"null">> }

JudgeResponses ==
    { [kind |-> k, content |-> NoContent] : k \in ChatFailures }
    \cup { [kind |-> "ok", content |-> c] : c \in NonJsonContents \cup JsonContents }

\* the fallback structure of judge_products
Fallback ==
    [t |-> "dict", d |-> [winner  |-> "Unable to determine",
                          ranking |-> <<>>,
                          reasons |-> <<"Error parsing recommendation">>]]

\* JudgeAgent.judge_products
judge_products(q, products, resp) ==
    LET response == call_openai(TRUE, resp).val
        parsed   == json_loads(response)
    IN  IF parsed.exc = "JSONDecodeError" THEN Ok(Fallback) ELSE parsed


\* ------------------------------------------------------------ the questions
Q_IPhone ==
    << "i","P","h","o","n","e"," ","1","5"," ","P","r","o"," ","v","s"," ",
       "P","i","x","e","l"," ","8"," ","P","r","o" >>

Q_Headphones ==
    << "b","e","s","t"," ","h","e","a","d","p","h","o","n","e","s"," ",
       "u","n","d","e","r"," ","$","5","0","0" >>

\* questions of the vs shape
VsQuestions ==
    { Q_IPhone,
      << "a", " ", "V", "S", ".", " ", "b", "?" >>,
      << " ", "a", " ", " ", "v", "s", "\t", "b", " ", "?", "c" >>,
      << "a", " ", "v", "s", " ", "b", " ", "v", "s", " ", "c" >>,
      << "x", "\n", "a", " ", "v", "s", " ", " " >>,
      << " ", " ", "v", "s", " ", "b" >>,
      << "a", " ", "v", "s", " ", "?" >>,
      << "a", "?", " ", "v", "s", "\n", "b", "\n" >> }

\* questions of another shape
PlainQuestions ==
    { Q_Headphones,
      << " ", "a", "v", "s", " ", "b", " " >>,
      << "a", " ", "v", "s", ".", "b" >>,
      << "a", " ", "v", "s", " ", "b", "\n", "\n" >>,
      << >> }

Questions == VsQuestions \cup PlainQuestions

\* ------------------------------------------------------------------- state
VARIABLES
    question,           \* the argument of run_pipeline
    pc,                 \* where the run is
    vs,                 \* vs_match, product_a, product_b
    hits_a,             \* hits of the first search of a vs comparison
    hits,               \* hits
    enriched_products,  \* enriched_products
    result,             \* the dict run_pipeline returns
    exc,                \* the exception that left run_pipeline, "" when none
    calls               \* the backend calls made so far, in order

vars == << question, pc, vs, hits_a, hits, enriched_products, result, exc, calls >>

NoResult == [query |-> <<>>, winner |-> "", ranking |-> <<>>, reasons |-> <<>>,
             sources |-> <<>>]

Init ==
    /\ question \in Questions
    /\ pc = "match"
    /\ vs = [matched |-> FALSE, product_a |-> <<>>, product_b |-> <<>>]
    /\ hits_a = <<>>
    /\ hits = <<>>
    /\ enriched_products = <<>>
    /\ result = NoResult
    /\ exc = ""
    /\ calls = <<>>

\* one entry of calls
Call(api, arg, opt, resp, ret) ==
    [api |-> api, arg |-> arg, opt |-> opt, outcome |-> resp.kind,
     content |-> IF api = "search" THEN <<>> ELSE resp.content, ret |-> ret]

\* the plain search on the stripped question
plain_search_args_stripped(q) == [query |-> Strip(q), max_results |-> DefaultMaxResults]

\* the arguments of the search of a question that is not a comparison
plain_search_args(q) == [query |-> q, max_results |-> DefaultMaxResults]

\* the searches of a comparison with the default result count
vs_search_args_default(product) == [query |-> product, max_results |-> DefaultMaxResults]

\* the arguments of the two searches of a comparison
vs_search_args(product) == [query |-> product, max_results |-> VsMaxResults]

\* hits = hits_a + hits_b
concat_hits(a, b) == a \o b

\* the dict appended to enriched_products
enrich(hit, summary) ==
    [title |-> hit.title, url |-> hit.url, snippet |-> hit.snippet, summary |-> summary]

\* the last four instead of the first four
sources_of_last(enriched) ==
    SubSeq(enriched, Len(enriched) - Min(SourcesLimit, Len(enriched)) + 1, Len(enriched))

\* enriched_products[:4]
sources_of(enriched) == Take(enriched, SourcesLimit)

\* judging the capped list
judge_args_capped(q, enriched) == [question |-> q, products |-> sources_of(enriched)]

\* what judge_products is called with
judge_args(q, enriched) == [question |-> q, products |-> enriched]

\* the return statement of run_pipeline
assemble(q, verdict, enriched) ==
    IF verdict.t # "dict" THEN Raise("AttributeError")
    ELSE Ok([query   |-> q,
             winner  |-> Get(verdict.d, "winner", ""),
             ranking |-> Get(verdict.d, "ranking", <<>>),
             reasons |-> Get(verdict.d, "reasons", <<>>),
             sources |-> sources_of(enriched)])

\* vs_match = re.search(...); product_a, product_b
Match ==
    /\ pc = "match"
    /\ LET m == vs_match(question)
       IN  /\ vs' = [matched   |-> m.matched,
                     product_a |-> Strip(m.group1),
                     product_b |-> Strip(m.group2)]
           /\ pc' = IF m.matched THEN "search_a" ELSE "search"
    /\ UNCHANGED << question, hits_a, hits, enriched_products, result, exc, calls >>

\* hits_a = self.scout.search(product_a, max_results=4)
SearchA ==
    /\ pc = "search_a"
    /\ \E resp \in SearchResponses :
         LET a == vs_search_args(vs.product_a)
             r == search(a.query, a.max_results, resp)
         IN  /\ calls' = Append(calls, Call("search", a.query, a.max_results, resp, r.val))
             /\ IF r.exc # ""
                THEN pc' = "raised" /\ exc' = r.exc /\ hits_a' = hits_a
                ELSE pc' = "search_b" /\ exc' = exc /\ hits_a' = r.val
    /\ UNCHANGED << question, vs, hits, enriched_products, result >>

\* hits_b = self.scout.search(product_b, max_results=4); hits = hits_a + hits_b
SearchB ==
    /\ pc = "search_b"
    /\ \E resp \in SearchResponses :
         LET a == vs_search_args(vs.product_b)
             r == search(a.query, a.max_results, resp)
         IN  /\ calls' = Append(calls, Call("search", a.query, a.max_results, resp, r.val))
             /\ IF r.exc # ""
                THEN pc' = "raised" /\ exc' = r.exc /\ hits' = hits
                ELSE pc' = "enrich" /\ exc' = exc /\ hits' = concat_hits(hits_a, r.val)
    /\ UNCHANGED << question, vs, hits_a, enriched_products, result >>

\* hits = self.scout.search(question)
SearchPlain ==
    /\ pc = "search"
    /\ \E resp \in SearchResponses :
         LET a == plain_search_args(question)
             r == search(a.query, a.max_results, resp)
         IN  /\ calls' = Append(calls, Call("search", a.query, a.max_results, resp, r.val))
             /\ IF r.exc # ""
                THEN pc' = "raised" /\ exc' = r.exc /\ hits' = hits
                ELSE pc' = "enrich" /\ exc' = exc /\ hits' = r.val
    /\ UNCHANGED << question, vs, hits_a, enriched_products, result >>

\* extraction calls that failed so far
ExtractFailures ==
    Cardinality({ i \in DOMAIN calls :
                    calls[i].api = "extract" /\ calls[i].outcome \in ChatFailures })

\* one turn of the loop over hits
Extract ==
    /\ pc = "enrich"
    /\ Len(enriched_products) < Len(hits)
    /\ LET hit == hits[Len(enriched_products) + 1]
       IN  \E resp \in ExtractResponses(hit.snippet) :
             /\ resp.kind \in ChatFailures => ExtractFailures < MaxExtractFailures
             /\ LET r == extract_product_info(hit.snippet, resp)
                IN  /\ calls' = Append(calls, Call("extract", hit.snippet, FALSE, resp, r.val))
                    /\ IF r.exc # ""
                       THEN /\ pc' = "raised" /\ exc' = r.exc
                            /\ enriched_products' = enriched_products
                       ELSE /\ pc' = pc /\ exc' = exc
                            /\ enriched_products' =
                                   Append(enriched_products, enrich(hit, r.val))
    /\ UNCHANGED << question, vs, hits_a, hits, result >>

\* verdict = self.judge.judge_products(question, enriched_products); return {...}
Judge ==
    /\ pc = "enrich"
    /\ Len(enriched_products) = Len(hits)
    /\ \E resp \in JudgeResponses :
         LET a == judge_args(question, enriched_products)
             v == judge_products(a.question, a.products, resp)
             r == IF v.exc # "" THEN v ELSE assemble(question, v.val, enriched_products)
         IN  /\ calls' = Append(calls, Call("judge", a, TRUE, resp, v.val))
             /\ IF r.exc # ""
                THEN pc' = "raised" /\ exc' = r.exc /\ result' = result
                ELSE pc' = "done" /\ exc' = exc /\ result' = r.val
    /\ UNCHANGED << question, vs, hits_a, hits, enriched_products >>

Next == Match \/ SearchA \/ SearchB \/ SearchPlain \/ Extract \/ Judge

Spec == Init /\ [][Next]_vars


\* ------------------------------------------------------------------ claims
Terminal == pc \in {"done", "raised"}

PastSearch == pc \in {"enrich", "done", "raised"}

SearchIdx == { i \in DOMAIN calls : calls[i].api = "search" }

ExtractIdx == { i \in DOMAIN calls : calls[i].api = "extract" }

JudgeIdx == { i \in DOMAIN calls : calls[i].api = "judge" }

ResultKeys == {"query", "winner", "ranking", "reasons", "sources"}

VerdictKeys == {"winner", "ranking", "reasons"}

IsFallback(v) ==
    /\ v.t = "dict"
    /\ DOMAIN v.d = VerdictKeys
    /\ v.d["winner"] = "Unable to determine"
    /\ v.d["ranking"] = <<>>
    /\ v.d["reasons"] = <<"Error parsing recommendation">>

\* C1: run_pipeline never lets an exception out, whatever the backends do,
\* and the dict it returns has exactly the keys query, winner, ranking,
\* reasons, sources.
C1_NeverRaises ==
    /\ pc # "raised"
    /\ exc = ""
    /\ pc = "done" => DOMAIN result = ResultKeys

\* t begins and ends with whitespace and is "vs" or "vs." in between, in any case
IsSeparator(t) ==
    /\ t # <<>> /\ IsSpace(t[1]) /\ IsSpace(t[Len(t)])
    /\ LET core == Strip(t)
       IN  /\ Len(core) \in {2, 3}
           /\ core[1] \in {"v", "V"} /\ core[2] \in {"s", "S"}
           /\ Len(core) = 3 => core[3] = "."

NoPadding(t) == t = <<>> \/ (~IsSpace(t[1]) /\ ~IsSpace(t[Len(t)]))

\* a, a separator and b occur in q in this order
SplitsAs(q, a, b) ==
    \E i \in 1..(Len(q) + 1) : \E j \in i..(Len(q) + 1) :
        /\ SubSeq(q, i, i + Len(a) - 1) = a
        /\ IsSeparator(SubSeq(q, i + Len(a), j - 1))
        /\ SubSeq(q, j, j + Len(b) - 1) = b

\* C2: a question of the vs shape is searched exactly twice, first for span A
\* and then for span B, both without surrounding whitespace, both with
\* max_results 4 ("iPhone 15 Pro vs Pixel 8 Pro" for "iPhone 15 Pro" and
\* "Pixel 8 Pro"), and the hits enriched are A's followed by B's, each in the
\* order its search returned them.
C2_VsTwoSearches ==
    (question \in VsQuestions /\ PastSearch) =>
        /\ SearchIdx = {1, 2}
        /\ calls[1].opt = 4 /\ calls[2].opt = 4
        /\ NoPadding(calls[1].arg) /\ NoPadding(calls[2].arg)
        /\ SplitsAs(question, calls[1].arg, calls[2].arg)
        /\ question = Q_IPhone =>
              /\ calls[1].arg = SubSeq(Q_IPhone, 1, 13)
              /\ calls[2].arg = SubSeq(Q_IPhone, 18, 28)
        /\ Len(hits) = Len(calls[1].ret) + Len(calls[2].ret)
        /\ \A i \in 1..Len(calls[1].ret) : hits[i] = calls[1].ret[i]
        /\ \A i \in 1..Len(calls[2].ret) : hits[Len(calls[1].ret) + i] = calls[2].ret[i]

C2_Witness ==
    /\ pc = "done" /\ question = Q_IPhone
    /\ Len(calls[1].ret) = 2 /\ Len(calls[2].ret) = 1

\* C3: a question of another shape is searched exactly once, for the whole
\* question as it is, with max_results 8, and the result returned carries
\* the question as its query.
C3_PlainOneSearch ==
    (question \in PlainQuestions /\ PastSearch) =>
        /\ SearchIdx = {1}
        /\ calls[1].arg = question
        /\ calls[1].opt = 8
        /\ hits = calls[1].ret
        /\ pc = "done" => result.query = question

C3_Witness ==
    /\ pc = "done" /\ question \in PlainQuestions /\ question # Strip(question)
    /\ Len(hits) > 0

\* the hits all searches returned, in call order
RECURSIVE Returned(_)
Returned(n) ==
    IF n = 0 THEN <<>>
    ELSE Returned(n - 1) \o (IF calls[n].api = "search" THEN calls[n].ret ELSE <<>>)

\* C4: the sources of a returned result are the first min(4, n) of the n
\* enriched products, in their order; in a comparison, those of A's hits
\* followed by B's.
C4_SourcesPrefix ==
    pc = "done" =>
        LET n == Len(enriched_products)
            all == Returned(Len(calls))
        IN  /\ Len(result.sources) <= 4
            /\ Len(result.sources) = Min(4, n)
            /\ \A i \in 1..Len(result.sources) :
                 /\ result.sources[i] = enriched_products[i]
                 /\ i <= Len(all)
                 /\ result.sources[i].title = all[i].title
                 /\ result.sources[i].url = all[i].url
                 /\ result.sources[i].snippet = all[i].snippet

C4_Witness ==
    /\ pc = "done" /\ question \in VsQuestions
    /\ Len(calls[1].ret) = 2 /\ Len(calls[2].ret) = 3

\* C5: when the judge backend call fails or answers with text that is not
\* JSON, judge_products returns the fallback and raises nothing, and the
\* result's winner, ranking and reasons are the fallback's.
C5_FallbackOnBadJudge ==
    \A i \in JudgeIdx :
        (calls[i].outcome \in ChatFailures \/ calls[i].content \in NonJsonContents) =>
            /\ pc = "done"
            /\ IsFallback(calls[i].ret)
            /\ result.winner = "Unable to determine"
            /\ result.ranking = <<>>
            /\ result.reasons = <<"Error parsing recommendation">>

\* C6: every value judge_products returns is an object with the keys winner,
\* ranking and reasons, or the fallback.
C6_VerdictShape ==
    \A i \in JudgeIdx :
        \/ calls[i].ret.t = "dict" /\ VerdictKeys \subseteq DOMAIN calls[i].ret.d
        \/ IsFallback(calls[i].ret)

Rank(api) == CASE api = "search" -> 1 [] api = "extract" -> 2 [] OTHER -> 3

\* C7: the calls are all searches, then one extraction per hit in hit order
\* on that hit's snippet, then one judge call with the question and all the
\* enriched products; enriched product i is hit i with the summary that
\* extraction i returned.
C7_CallOrder ==
    /\ \A i, j \in DOMAIN calls : i < j => Rank(calls[i].api) <= Rank(calls[j].api)
    /\ Cardinality(JudgeIdx) <= 1
    /\ Terminal =>
        LET n  == Len(hits)
            ns == Cardinality(SearchIdx)
        IN  /\ hits = Returned(Len(calls))
            /\ Len(calls) = ns + n + 1
            /\ Len(enriched_products) = n
            /\ \A i \in 1..n :
                 /\ calls[ns + i].api = "extract"
                 /\ calls[ns + i].arg = hits[i].snippet
                 /\ enriched_products[i].title = hits[i].title
                 /\ enriched_products[i].url = hits[i].url
                 /\ enriched_products[i].snippet = hits[i].snippet
                 /\ enriched_products[i].summary = calls[ns + i].ret
                 /\ DOMAIN enriched_products[i] = {"title", "url", "snippet", "summary"}
            /\ calls[Len(calls)].api = "judge"
            /\ calls[Len(calls)].arg.question = question
            /\ calls[Len(calls)].arg.products = enriched_products

C7_Witness == Terminal /\ Len(hits) > 4

\* C8: when an extraction call fails, that product's summary is "", every
\* other summary is what its own call returned, all extraction calls and the
\* judge call are made, and the run returns a result.
C8_ExtractFailureIsLocal ==
    (Terminal /\ \E i \in ExtractIdx : calls[i].outcome \in ChatFailures) =>
        LET ns == Cardinality(SearchIdx)
        IN  /\ Cardinality(ExtractIdx) = Len(hits)
            /\ Len(enriched_products) = Len(hits)
            /\ \A i \in 1..Len(hits) :
                 IF calls[ns + i].outcome \in ChatFailures
                 THEN enriched_products[i].summary = <<>>
                 ELSE enriched_products[i].summary = <<"summary of", " ", hits[i].snippet.id>>
            /\ JudgeIdx # {}
            /\ pc = "done"

\* C9: a search whose transport or status fails returns the empty list, the
\* value it returns for a response with zero results; nothing is raised and
\* the run goes on with no hits from that search.
C9_SearchFailureIsEmpty ==
    /\ \A i \in SearchIdx :
         calls[i].outcome \in SearchFailures =>
            /\ calls[i].ret = <<>>
            /\ calls[i].ret =
                 search(calls[i].arg, calls[i].opt,
                        [kind |-> "json", body |-> ResultsBody(0)]).val
    /\ pc = "raised" => JudgeIdx # {}
    /\ PastSearch => hits = Returned(Len(calls))

C9_Witness ==
    /\ pc = "done" /\ Len(hits) > 0
    /\ \E i \in SearchIdx : calls[i].outcome \in SearchFailures

\* C10: search returns at most max_results results, so that a run enriches at
\* most 8 hits.
C10_AtMostMaxResults ==
    /\ \A i \in SearchIdx : Len(calls[i].ret) <= calls[i].opt
    /\ Len(hits) <= 8

====
